---------------------------- MODULE Spec2Model ----------------------------
(***************************************************************************)
(* A model of src/app.py: the infographic renderer                         *)
(* (create_infographic_pdf) and the generate request of the frontend       *)
(* (main).                                                                 *)
(*                                                                         *)
(* The text the pipeline returns is a sequence of tokens: "F" is a fence   *)
(* marker (three backticks), "J" the word json, "W" a whitespace           *)
(* character, "X" prose that is not JSON, "N" the text of a JSON number,   *)
(* and "O", "E", "S", "D" the texts of JSON objects (see ParseValue).      *)
(*                                                                         *)
(* Texts.  The summary is a character string; it is kept run-length        *)
(* encoded, as a sequence of runs [c |-> character, n |-> repetitions],    *)
(* so that lines longer than the 80-character threshold are reachable with *)
(* a handful of runs.  "SP" is a blank and "NL" a line break.              *)
(*                                                                         *)
(* Lengths on the page are in tenths of a point; x is measured from the    *)
(* left edge of the page and y from its top edge (y = 0 is `height`).      *)
(*                                                                         *)
(* JSON values are records [k |-> kind, v |-> payload] with kind one of    *)
(* "absent" (the key is missing), "null", "num", "str", "list", "dict".    *)
(***************************************************************************)
EXTENDS Integers, Sequences, FiniteSets, TLC

VARIABLES
    pc,          \* position in create_infographic_pdf / main
    exc,         \* the exception raised, "" when none
    data,        \* the record handed to create_infographic_pdf
    title,       \* the string drawn in the header banner
    draws,       \* the drawing operations of the stats row, in order
    sliced,      \* stats[:3], the sequence the for loop iterates
    i,           \* the loop index of enumerate(stats[:3])
    words,       \* summary_text.split()
    wi,          \* number of words the wrap loop has consumed
    line,        \* the line buffer of the wrap loop
    lines,       \* the lines given to text_object.textLine, in order
    ty,          \* text_object.getY()
    heading_y,   \* y of the "Did You Know?" heading
    fact,        \* the fun-fact string drawn
    saved,       \* c.save() has written the file
    result,      \* the value create_infographic_pdf returned
    api_key,     \* the sidebar input
    topic,       \* the topic input
    upstream,    \* str(crew_output): what the pipeline returns
    raw_json,    \* the text handed to json.loads
    parsed,      \* the value json.loads returned
    ui,          \* the messages shown to the user, in order
    env_key,     \* os.environ["GOOGLE_API_KEY"] as written by this request
    calls        \* how often each step of the request ran

vars == <<pc, exc, data, title, draws, sliced, i, words, wi, line, lines, ty,
          heading_y, fact, saved, result, api_key, topic, upstream, raw_json,
          parsed, ui, env_key, calls>>

renderVars == <<data, title, draws, sliced, i, words, wi, line, lines, ty,
                heading_y, fact, saved, result>>

mainVars == <<api_key, topic, upstream, raw_json, parsed, ui, env_key, calls>>

----------------------------------------------------------------------------
(* Bounds of the model *)

MaxRuns == 6

MaxStats == 4

MaxTokens == 7

MaxReply == 4

----------------------------------------------------------------------------
(* Units and layout constants *)

Inch == 720

WrapThreshold == 80

Leading == 140

MaxBoxes == 3

\* 0.5*inch, the left margin
Margin == Inch \div 2

\* box_width = 2.2*inch
box_width == (22 * Inch) \div 10

\* the 0.2*inch gap between two boxes
BoxGap == (2 * Inch) \div 10

\* y_pos of the "Key Statistics" heading, height - 2.5*inch
StatsHeadingY == 0 - (25 * Inch) \div 10

\* box_y = y_pos - 1.5*inch
box_y == StatsHeadingY - (15 * Inch) \div 10

\* x_pos of box k (0-based)
SlotX(k) == Margin + k * (box_width + BoxGap)

\* y of the first summary line: box_y - 0.5*inch - 0.3*inch
SummaryY == box_y - Inch \div 2 - (3 * Inch) \div 10

----------------------------------------------------------------------------
(* Texts *)

SP == [c |-> "SP", n |-> 1]

NL == [c |-> "NL", n |-> 1]

\* whitespace as split(" ") sees it
IsSpaceBlankOnly(r) == r.c = "SP"

IsSpace(r) == r.c \in {"SP", "NL"}

RECURSIVE TextLen(_)
TextLen(t) == IF t = <<>> THEN 0 ELSE Head(t).n + TextLen(Tail(t))

\* str.split(): the maximal runs of non-whitespace characters, in order.
\* cur is the word being read, acc the words read so far.
RECURSIVE SplitFrom(_, _, _)
SplitFrom(t, cur, acc) ==
    IF t = <<>>
    THEN IF cur = <<>> THEN acc ELSE Append(acc, cur)
    ELSE IF IsSpace(Head(t))
         THEN SplitFrom(Tail(t), <<>>,
                        IF cur = <<>> THEN acc ELSE Append(acc, cur))
         ELSE SplitFrom(Tail(t), Append(cur, Head(t)), acc)

Split(t) == SplitFrom(t, <<>>, <<>>)

\* sep.join(parts): the parts with sep between two neighbours
RECURSIVE JoinWith(_, _)
JoinWith(parts, sep) ==
    IF parts = <<>> THEN <<>>
    ELSE IF Len(parts) = 1 THEN Head(parts)
    ELSE Head(parts) \o <<sep>> \o JoinWith(Tail(parts), sep)

\* " ".join(line)
Join(ws) == JoinWith(ws, SP)


----------------------------------------------------------------------------
(* JSON values and their string forms *)

Absent == [k |-> "absent", v |-> 0]

Null == [k |-> "null", v |-> 0]

Num(n) == [k |-> "num", v |-> n]

Str(s) == [k |-> "str", v |-> s]

List(s) == [k |-> "list", v |-> s]

\* a JSON object with the keys "label" and "value" (either may be absent)
Entry(l, v) == [k |-> "dict", v |-> [label |-> l, value |-> v]]

\* dict.get(key), which yields None for a missing key
GetNoDefault(field, default) == IF field.k = "absent" THEN Null ELSE field

\* dict.get(key, default)
Get(field, default) == IF field.k = "absent" THEN default ELSE field

Digit == <<"0", "1", "2", "3", "4", "5", "6", "7", "8", "9">>

RECURSIVE NumStr(_)
NumStr(n) ==
    IF n < 10 THEN Digit[n + 1] ELSE NumStr(n \div 10) \o Digit[(n % 10) + 1]

\* str(x), and the formatting of x inside an f-string
PyStr(x) ==
    CASE x.k = "str"  -> x.v
      [] x.k = "num"  -> NumStr(x.v)
      [] x.k = "null" -> "None"

----------------------------------------------------------------------------
(* create_infographic_pdf, lines 38-116 *)

TextOp(x, y, s) == [op |-> "drawCentredString", x |-> x, y |-> y, text |-> s]

RectOp(x, y) == [op |-> "roundRect", x |-> x, y |-> y, text |-> ""]

\* a box whose texts are anchored at its left edge
BoxCentreLeft(x_pos) == x_pos

\* the centre of the slot whose left edge is x_pos
BoxCentre(x_pos) == x_pos + box_width \div 2

\* what one pass of the loop body draws for entry stat in slot k (lines 69-80)
BoxDraws(k, stat) ==
    << RectOp(SlotX(k), box_y),
       TextOp(BoxCentre(SlotX(k)), box_y + (7 * Inch) \div 10,
              PyStr(Get(stat.v.value, Str("")))),
       TextOp(BoxCentre(SlotX(k)), box_y + (4 * Inch) \div 10,
              PyStr(Get(stat.v.label, Str("")))) >>

\* stats[:3] of line 68; a string slices to its first characters
Slice(stats) ==
    IF stats.k = "str"
    THEN [j \in 1..(IF Len(stats.v) < MaxBoxes THEN Len(stats.v) ELSE MaxBoxes)
            |-> Str(stats.v[j])]
    ELSE SubSeq(stats.v, 1, IF Len(stats.v) < MaxBoxes THEN Len(stats.v) ELSE MaxBoxes)

\* the values stats[:3] can be taken of; of a number or null it raises
\* TypeError, of a mapping TypeError or KeyError
Sliceable(stats) == stats.k \in {"list", "str"}

\* the values that have a .get method
HasGet(x) == x.k = "dict"

\* the values that have a .split method
HasSplit(x) == x.k = "str"

\* 'No summary available.'
NoSummary ==
    << [c |-> "N", n |-> 1], [c |-> "o", n |-> 1], SP,
       [c |-> "s", n |-> 1], [c |-> "u", n |-> 1], [c |-> "m", n |-> 2],
       [c |-> "a", n |-> 1], [c |-> "r", n |-> 1], [c |-> "y", n |-> 1], SP,
       [c |-> "a", n |-> 1], [c |-> "v", n |-> 1], [c |-> "a", n |-> 1],
       [c |-> "i", n |-> 1], [c |-> "l", n |-> 1], [c |-> "a", n |-> 1],
       [c |-> "b", n |-> 1], [c |-> "l", n |-> 1], [c |-> "e", n |-> 1],
       [c |-> ".", n |-> 1] >>

Raise(e) == pc' = "raised" /\ exc' = e

\* lines 42-56: canvas, background, header banner and title
RenderBegin ==
    /\ pc = "begin"
    /\ title' = "Infographic: " \o PyStr(Get(data.topic, Str("Unknown Topic")))
    /\ pc' = "stats"
    /\ UNCHANGED <<exc, data, draws, sliced, i, words, wi, line, lines, ty,
                   heading_y, fact, saved, result, mainVars>>

\* lines 59-68: the section heading, then stats[:3] is evaluated
RenderStats ==
    /\ pc = "stats"
    /\ LET stats == Get(data.stats, List(<<>>))
       IN  IF Sliceable(stats)
           THEN /\ sliced' = Slice(stats)
                /\ i' = 0
                /\ pc' = "box"
                /\ exc' = exc
           ELSE /\ Raise("TypeError")
                /\ UNCHANGED <<sliced, i>>
    /\ UNCHANGED <<data, title, draws, words, wi, line, lines, ty, heading_y,
                   fact, saved, result, mainVars>>

\* lines 68-80: one pass of the loop body.  The rounded box is drawn before
\* stat.get is first called.
RenderStatBox ==
    /\ pc = "box"
    /\ i < Len(sliced)
    /\ LET stat == sliced[i + 1]
       IN  IF HasGet(stat)
           THEN /\ draws' = draws \o BoxDraws(i, stat)
                /\ i' = i + 1
                /\ UNCHANGED <<pc, exc>>
           ELSE /\ draws' = Append(draws, RectOp(SlotX(i), box_y))
                /\ Raise("AttributeError")
                /\ i' = i
    /\ UNCHANGED <<data, title, sliced, words, wi, line, lines, ty, heading_y,
                   fact, saved, result, mainVars>>

\* lines 83-96: the section heading, the text object, summary_text.split()
RenderSummary ==
    /\ pc = "box"
    /\ i >= Len(sliced)
    /\ LET summary_text == Get(data.summary, Str(NoSummary))
       IN  IF HasSplit(summary_text)
           THEN /\ words' = Split(summary_text.v)
                /\ wi' = 0
                /\ line' = <<>>
                /\ ty' = SummaryY
                /\ pc' = "wrap"
                /\ exc' = exc
           ELSE /\ Raise("AttributeError")
                /\ UNCHANGED <<words, wi, line, ty>>
    /\ UNCHANGED <<data, title, draws, sliced, i, lines, heading_y, fact,
                   saved, result, mainVars>>

\* a wrap test that already flushes a buffer of exactly the threshold
OverflowsAtThreshold(buf) == TextLen(Join(buf)) >= WrapThreshold

\* line 99: the test that flushes the buffer
Overflows(buf) == TextLen(Join(buf)) > WrapThreshold

\* lines 96-102 as a function of the words: buf is the line buffer, acc the
\* lines emitted so far
RECURSIVE WrapFrom(_, _, _)
WrapFrom(ws, buf, acc) ==
    IF ws = <<>>
    THEN Append(acc, Join(buf))
    ELSE LET b == Append(buf, Head(ws))
         IN  IF Overflows(b)
             THEN WrapFrom(Tail(ws), <<>>, Append(acc, Join(b)))
             ELSE WrapFrom(Tail(ws), b, acc)

\* lines 97-101: one pass of the wrap loop
WrapWord ==
    /\ pc = "wrap"
    /\ wi < Len(words)
    /\ LET buf == Append(line, words[wi + 1])
       IN  IF Overflows(buf)
           THEN /\ lines' = Append(lines, Join(buf))
                /\ ty' = ty - Leading
                /\ line' = <<>>
           ELSE /\ line' = buf
                /\ UNCHANGED <<lines, ty>>
    /\ wi' = wi + 1
    /\ UNCHANGED <<pc, exc, data, title, draws, sliced, i, words, heading_y,
                   fact, saved, result, mainVars>>

\* a final flush that is skipped when the buffer is empty
WrapFinalIfAny ==
    /\ pc = "wrap"
    /\ wi = Len(words)
    /\ IF line = <<>>
       THEN UNCHANGED <<lines, ty>>
       ELSE lines' = Append(lines, Join(line)) /\ ty' = ty - Leading
    /\ pc' = "fact"
    /\ UNCHANGED <<exc, data, title, draws, sliced, i, words, wi, line,
                   heading_y, fact, saved, result, mainVars>>

\* lines 102-103: the buffer is flushed after the loop, then the text is drawn
WrapFinal ==
    /\ pc = "wrap"
    /\ wi = Len(words)
    /\ lines' = Append(lines, Join(line))
    /\ ty' = ty - Leading
    /\ pc' = "fact"
    /\ UNCHANGED <<exc, data, title, draws, sliced, i, words, wi, line,
                   heading_y, fact, saved, result, mainVars>>

\* lines 106-113: the heading below the text object, then the fun fact
\* ("* " is the bullet marker and the blank after it)
RenderFunFact ==
    /\ pc = "fact"
    /\ heading_y' = ty - Inch \div 2
    /\ fact' = "* " \o PyStr(Get(data.fun_fact, Str("")))
    /\ pc' = "save"
    /\ UNCHANGED <<exc, data, title, draws, sliced, i, words, wi, line, lines,
                   ty, saved, result, mainVars>>

\* lines 115-116: c.save() writes the file, or fails when the path is not
\* writable; the path is returned
RenderSave ==
    /\ pc = "save"
    /\ \E writable \in BOOLEAN :
          IF writable
          THEN /\ saved' = TRUE
               /\ result' = "infographic.pdf"
               /\ pc' = "done"
               /\ exc' = exc
          ELSE /\ Raise("OSError")
               /\ UNCHANGED <<saved, result>>
    /\ UNCHANGED <<data, title, draws, sliced, i, words, wi, line, lines, ty,
                   heading_y, fact, mainVars>>

NextRender ==
    \/ RenderBegin
    \/ RenderStats
    \/ RenderStatBox
    \/ RenderSummary
    \/ WrapWord
    \/ WrapFinal
    \/ RenderFunFact
    \/ RenderSave

----------------------------------------------------------------------------
(* The records and texts the renderer is run on *)

RunSet ==
    { [c |-> "a", n |-> 1], [c |-> "a", n |-> 39], [c |-> "a", n |-> 81],
      [c |-> "b", n |-> 1], SP, NL }

\* a run-length encoding never repeats a character in two neighbouring runs
Canonical(t) == \A j \in 1..(Len(t) - 1) : t[j].c # t[j + 1].c

Texts(m) == { t \in UNION { [1..n -> RunSet] : n \in 0..m } : Canonical(t) }

SeqsUpTo(S, m) == UNION { [1..n -> S] : n \in 0..m }

GoodEntry == Entry(Str("L1"), Str("V1"))

EntryValues ==
    { Entry(Absent, Absent), Entry(Str(""), Str("")), GoodEntry,
      Entry(Null, Num(42)), Num(5) }

StatsValues ==
    { List(s) : s \in SeqsUpTo(EntryValues, MaxStats) }
      \cup { Absent, Null, Num(7), Str(<<>>), Str(<<"x">>), Entry(Absent, Absent) }

TopicValues == { Absent, Str(""), Str("T"), Num(7) }

FunFactValues == { Absent, Str(""), Null }

LongSummary == << [c |-> "a", n |-> 81], SP, [c |-> "b", n |-> 1] >>

SummaryValues == { Absent, Str(<<>>), Str(LongSummary), Num(7), Null }

RenderIdle ==
    /\ exc = ""
    /\ title = ""
    /\ draws = <<>>
    /\ sliced = <<>>
    /\ i = 0
    /\ words = <<>>
    /\ wi = 0
    /\ line = <<>>
    /\ lines = <<>>
    /\ ty = 0
    /\ heading_y = 0
    /\ fact = ""
    /\ saved = FALSE
    /\ result = ""

MainIdle ==
    /\ api_key = ""
    /\ topic = ""
    /\ upstream = <<>>
    /\ raw_json = <<>>
    /\ parsed = Null
    /\ ui = <<>>
    /\ env_key = ""
    /\ calls = [crew |-> 0, parse |-> 0, render |-> 0, download |-> 0]

\* the renderer called on records of every shape
InitRender ==
    /\ pc = "begin"
    /\ data \in [topic : TopicValues, summary : SummaryValues,
                 stats : StatsValues, fun_fact : FunFactValues]
    /\ RenderIdle
    /\ MainIdle

\* the renderer called on every summary text
InitWrap ==
    /\ pc = "begin"
    /\ data \in { [topic |-> Str("T"), summary |-> Str(t),
                   stats |-> List(<<GoodEntry>>), fun_fact |-> Str("F")]
                  : t \in Texts(MaxRuns) }
    /\ RenderIdle
    /\ MainIdle

SpecRender == InitRender /\ [][NextRender]_vars

SpecWrap == InitWrap /\ [][NextRender]_vars

----------------------------------------------------------------------------
(* main, lines 199-256: one click on "Generate Infographic" *)

Fence == <<"F">>

FenceJson == <<"F", "J">>

\* sep in t
Contains(t, sep) ==
    \E j \in 1..(Len(t) - Len(sep) + 1) : SubSeq(t, j, j + Len(sep) - 1) = sep

\* t.split(sep): cur is the part being read, acc the parts read so far
RECURSIVE SplitOnFrom(_, _, _, _)
SplitOnFrom(t, sep, cur, acc) ==
    IF Len(t) < Len(sep)
    THEN Append(acc, cur \o t)
    ELSE IF SubSeq(t, 1, Len(sep)) = sep
         THEN SplitOnFrom(SubSeq(t, Len(sep) + 1, Len(t)), sep, <<>>,
                          Append(acc, cur))
         ELSE SplitOnFrom(Tail(t), sep, Append(cur, Head(t)), acc)

SplitOn(t, sep) == SplitOnFrom(t, sep, <<>>, <<>>)

\* t.strip()
RECURSIVE Strip(_)
Strip(t) ==
    IF t = <<>> THEN t
    ELSE IF Head(t) = "W" THEN Strip(Tail(t))
    ELSE IF t[Len(t)] = "W" THEN Strip(SubSeq(t, 1, Len(t) - 1))
    ELSE t

\* a cleaning that looks for a plain fence before a json fence
CleanPlainFirst(raw) ==
    IF Contains(raw, Fence)
    THEN SplitOn(SplitOn(raw, Fence)[2], Fence)[1]
    ELSE raw

\* lines 222-225: the fenced block is cut out of the stripped text
Clean(raw) ==
    IF Contains(raw, FenceJson)
    THEN SplitOn(SplitOn(raw, FenceJson)[2], Fence)[1]
    ELSE IF Contains(raw, Fence)
         THEN SplitOn(SplitOn(raw, Fence)[2], Fence)[1]
         ELSE raw

GoodRecord ==
    [topic |-> Str("T"),
     summary |-> Str(LongSummary),
     stats |-> List(<<GoodEntry, Entry(Str("L2"), Str("V2")),
                      Entry(Str("L3"), Str("V3"))>>),
     fun_fact |-> Str("F")]

EmptyRecord ==
    [topic |-> Absent, summary |-> Absent, stats |-> Absent, fun_fact |-> Absent]

\* the JSON texts among the tokens, and the value each parses to
JsonTokens == {"O", "E", "S", "D", "N"}

ParseValue(tok) ==
    CASE tok = "O" -> [k |-> "dict", v |-> GoodRecord]
      [] tok = "E" -> [k |-> "dict", v |-> EmptyRecord]
      [] tok = "S" -> [k |-> "dict", v |-> [GoodRecord EXCEPT !.summary = Null]]
      [] tok = "D" -> [k |-> "dict",
                       v |-> [GoodRecord EXCEPT !.stats = Entry(Absent, Absent)]]
      [] tok = "N" -> Num(42)

\* json.loads accepts one JSON text, with whitespace around it
IsJson(t) == Len(Strip(t)) = 1 /\ Strip(t)[1] \in JsonTokens

Event(kind, text) == [kind |-> kind, text |-> text]

\* the keys of a JSON object whose label and value may be absent
DictKeys(d) ==
    (IF d.label.k = "absent" THEN <<>> ELSE <<Str("label")>>)
      \o (IF d.value.k = "absent" THEN <<>> ELSE <<Str("value")>>)

\* the values enumerate() accepts
Iterable(x) == x.k \in {"list", "str", "dict"}

\* what iterating x yields
Items(x) ==
    CASE x.k = "list" -> x.v
      [] x.k = "str"  -> [j \in 1..Len(x.v) |-> Str(x.v[j])]
      [] x.k = "dict" -> DictKeys(x.v)

\* lines 236-238: the metrics shown for the first entries of items, up to the
\* first entry that has no .get
RECURSIVE Metrics(_, _)
Metrics(items, k) ==
    IF items = <<>> \/ k >= MaxBoxes \/ ~HasGet(Head(items))
    THEN <<>>
    ELSE <<Event("metric", "stat")>> \o Metrics(Tail(items), k + 1)

\* lines 236-238 raise on an entry among the first three that has no .get
MetricsRaise(items) ==
    \E j \in 1..Len(items) : j <= MaxBoxes /\ ~HasGet(items[j])

\* a click whose topic is not checked
GenerateTopicUnchecked ==
    /\ pc = "button"
    /\ IF api_key = ""
       THEN /\ ui' = Append(ui, Event("error", "Please enter your API Key."))
            /\ pc' = "end"
       ELSE /\ pc' = "crew"
            /\ ui' = ui
    /\ UNCHANGED <<exc, renderVars, api_key, topic, upstream, raw_json, parsed,
                   env_key, calls>>

\* lines 209-213: the button was clicked; the inputs are checked
Generate ==
    /\ pc = "button"
    /\ IF api_key = ""
       THEN /\ ui' = Append(ui, Event("error", "Please enter your API Key."))
            /\ pc' = "end"
       ELSE IF topic = ""
            THEN /\ ui' = Append(ui, Event("warning", "Please enter a topic."))
                 /\ pc' = "end"
            ELSE /\ pc' = "crew"
                 /\ ui' = ui
    /\ UNCHANGED <<exc, renderVars, api_key, topic, upstream, raw_json, parsed,
                   env_key, calls>>

\* line 218 and lines 122-193: the key is written to the process
\* environment, then the crew runs; it returns its text or raises
RunCrew ==
    /\ pc = "crew"
    /\ env_key' = api_key
    /\ calls' = [calls EXCEPT !.crew = @ + 1]
    /\ \E ok \in BOOLEAN :
          IF ok THEN pc' = "clean" /\ exc' = exc ELSE Raise("CrewError")
    /\ UNCHANGED <<renderVars, api_key, topic, upstream, raw_json, parsed, ui>>

\* lines 221-225
CleanJson ==
    /\ pc = "clean"
    /\ raw_json' = Clean(Strip(upstream))
    /\ pc' = "parse"
    /\ UNCHANGED <<exc, renderVars, api_key, topic, upstream, parsed, ui,
                   env_key, calls>>

\* a parse that falls back to an empty record
ParseJsonLenient ==
    /\ pc = "parse"
    /\ calls' = [calls EXCEPT !.parse = @ + 1]
    /\ parsed' = IF IsJson(raw_json) THEN ParseValue(Strip(raw_json)[1])
                 ELSE [k |-> "dict", v |-> EmptyRecord]
    /\ pc' = "display"
    /\ UNCHANGED <<exc, renderVars, api_key, topic, upstream, raw_json, ui,
                   env_key>>

\* line 227
ParseJson ==
    /\ pc = "parse"
    /\ calls' = [calls EXCEPT !.parse = @ + 1]
    /\ IF IsJson(raw_json)
       THEN /\ parsed' = ParseValue(Strip(raw_json)[1])
            /\ pc' = "display"
            /\ exc' = exc
       ELSE /\ Raise("JSONDecodeError")
            /\ parsed' = parsed
    /\ UNCHANGED <<renderVars, api_key, topic, upstream, raw_json, ui, env_key>>

\* lines 230-240: the record is shown on screen
Display ==
    /\ pc = "display"
    /\ LET shown0 == <<Event("success", "Success!")>>
           shown1 == shown0 \o <<Event("markdown", "topic"),
                                 Event("info", "summary")>>
           stats == Get(parsed.v.stats, List(<<>>))
       IN  IF ~HasGet(parsed)
           THEN ui' = ui \o shown0 /\ Raise("AttributeError")
           ELSE IF ~Iterable(stats)
           THEN ui' = ui \o shown1 /\ Raise("TypeError")
           ELSE IF MetricsRaise(Items(stats))
           THEN /\ ui' = ui \o shown1 \o Metrics(Items(stats), 0)
                /\ Raise("AttributeError")
           ELSE /\ ui' = ui \o shown1 \o Metrics(Items(stats), 0)
                         \o <<Event("warning", "fun_fact")>>
                /\ pc' = "pdf"
                /\ exc' = exc
    /\ UNCHANGED <<renderVars, api_key, topic, upstream, raw_json, parsed,
                   env_key, calls>>

\* line 243: create_infographic_pdf(data) is called
CallRender ==
    /\ pc = "pdf"
    /\ calls' = [calls EXCEPT !.render = @ + 1]
    /\ data' = parsed.v
    /\ pc' = "begin"
    /\ UNCHANGED <<exc, title, draws, sliced, i, words, wi, line, lines, ty,
                   heading_y, fact, saved, result, api_key, topic, upstream,
                   raw_json, parsed, ui, env_key>>

\* lines 244-250: the file is opened and offered for download
OfferDownload ==
    /\ pc = "done"
    /\ calls' = [calls EXCEPT !.download = @ + 1]
    /\ ui' = Append(ui, Event("download", topic \o "_infographic.pdf"))
    /\ pc' = "end"
    /\ UNCHANGED <<exc, renderVars, api_key, topic, upstream, raw_json, parsed,
                   env_key>>

\* a handler that runs the crew again
ExceptRetry ==
    /\ pc = "raised"
    /\ ui' = ui \o <<Event("error", "Error: " \o exc)>>
    /\ pc' = "crew"
    /\ UNCHANGED <<exc, renderVars, api_key, topic, upstream, raw_json, parsed,
                   env_key, calls>>

\* lines 252-256: the catch-all handler
Except ==
    /\ pc = "raised"
    /\ ui' = ui \o <<Event("error", "Error: " \o exc), Event("warning", "hint")>>
    /\ pc' = "end"
    /\ UNCHANGED <<exc, renderVars, api_key, topic, upstream, raw_json, parsed,
                   env_key, calls>>

NextMain ==
    \/ Generate
    \/ RunCrew
    \/ CleanJson
    \/ ParseJson
    \/ Display
    \/ CallRender
    \/ NextRender
    \/ OfferDownload
    \/ Except

ReplyAlphabet == {"F", "J", "W", "X", "O", "E", "S", "D", "N"}

FenceAlphabet == {"F", "J", "W", "O"}

\* one request, for every input and every short reply of the pipeline
InitMain ==
    /\ pc = "button"
    /\ data = EmptyRecord
    /\ RenderIdle
    /\ api_key \in {"", "k"}
    /\ topic \in {"", "t"}
    /\ upstream \in SeqsUpTo(ReplyAlphabet, MaxReply)
    /\ raw_json = <<>>
    /\ parsed = Null
    /\ ui = <<>>
    /\ env_key = ""
    /\ calls = [crew |-> 0, parse |-> 0, render |-> 0, download |-> 0]

\* one request with both inputs given, for every fenced or unfenced reply
InitFence ==
    /\ pc = "button"
    /\ data = EmptyRecord
    /\ RenderIdle
    /\ api_key = "k"
    /\ topic = "t"
    /\ upstream \in SeqsUpTo(FenceAlphabet, MaxTokens)
    /\ raw_json = <<>>
    /\ parsed = Null
    /\ ui = <<>>
    /\ env_key = ""
    /\ calls = [crew |-> 0, parse |-> 0, render |-> 0, download |-> 0]

SpecMain == InitMain /\ [][NextMain]_vars

SpecFence == InitFence /\ [][NextMain]_vars

----------------------------------------------------------------------------
(* Properties of the renderer *)

Min(a, b) == IF a < b THEN a ELSE b

StatsDrawn == pc \in {"wrap", "fact", "save", "done"}

Wrapped == pc \in {"fact", "save", "done"}

\* the entries the loop reads are all label/value mappings
EntriesAreMappings(stats) ==
    \A j \in 1..Min(3, Len(stats.v)) : stats.v[j].k = "dict"

\* the text a label or value is shown as when it is a string or missing
Shown(x) == IF x.k = "absent" THEN "" ELSE x.v

\* C1: once the stats loop has ended on a stats list of mappings, exactly
\* min(3, len(stats)) boxes are drawn; box j (0-based) is the rounded box of
\* slot j, which starts at 0.5in + j*(2.2in + 0.2in), followed by the value
\* and the label of stats[j], both centred on the slot's midpoint (1.1in
\* right of its start); nothing is drawn for an entry at index 3 or beyond
\* nor for a missing slot.
C1_StatBoxes ==
    (StatsDrawn /\ data.stats.k \in {"absent", "list"}
                /\ (data.stats.k = "list" => EntriesAreMappings(data.stats))) =>
        LET stats == IF data.stats.k = "absent" THEN <<>> ELSE data.stats.v
            n == Min(3, Len(stats))
            slot(j) == Inch \div 2 + j * ((22 * Inch) \div 10 + (2 * Inch) \div 10)
            mid(j) == slot(j) + (11 * Inch) \div 10
        IN  /\ Len(draws) = 3 * n
            /\ \A j \in 0..(n - 1) :
                  /\ draws[3 * j + 1].op = "roundRect"
                  /\ draws[3 * j + 1].x = slot(j)
                  /\ draws[3 * j + 2].op = "drawCentredString"
                  /\ draws[3 * j + 2].x = mid(j)
                  /\ draws[3 * j + 3].op = "drawCentredString"
                  /\ draws[3 * j + 3].x = mid(j)
                  /\ stats[j + 1].v.value.k \in {"absent", "str"} =>
                        draws[3 * j + 2].text = Shown(stats[j + 1].v.value)
                  /\ stats[j + 1].v.label.k \in {"absent", "str"} =>
                        draws[3 * j + 3].text = Shown(stats[j + 1].v.label)

\* a list of four mappings has been rendered into three boxes
C1_Witness ==
    /\ pc = "done"
    /\ data.stats.k = "list"
    /\ Len(data.stats.v) = 4
    /\ \A j \in 1..4 : data.stats.v[j].k = "dict"
    /\ data.stats.v[1] # data.stats.v[2]
    /\ Len(draws) = 9

\* C2: the renderer raises nothing but the error of an unwritable output
\* path, whatever the types of the record's values.
C2_OnlySaveFails == pc = "raised" => exc = "OSError"

\* every field is missing, or holds a value of its expected type (which may
\* be empty)
AbsentOrTyped(d) ==
    /\ d.topic.k \in {"absent", "str"}
    /\ d.summary.k \in {"absent", "str"}
    /\ d.fun_fact.k \in {"absent", "str"}
    /\ \/ d.stats.k = "absent"
       \/ /\ d.stats.k = "list"
          /\ \A j \in 1..Len(d.stats.v) :
                /\ d.stats.v[j].k = "dict"
                /\ d.stats.v[j].v.label.k \in {"absent", "str"}
                /\ d.stats.v[j].v.value.k \in {"absent", "str"}

\* C3: on a record whose fields are each missing, empty or of the expected
\* type, the renderer raises nothing but the error of an unwritable path, and
\* when it returns it has saved the file, returns the path, and has drawn
\* 'Unknown Topic' for a missing topic, 'No summary available.' for a missing
\* summary, no box for missing or empty stats, empty text for a missing or
\* empty fun fact, and empty text for a missing or empty label or value.
C3_AbsentFields ==
    AbsentOrTyped(data) =>
        /\ pc = "raised" => exc = "OSError"
        /\ pc = "done" =>
              /\ saved /\ result = "infographic.pdf"
              /\ data.topic.k = "absent" => title = "Infographic: Unknown Topic"
              /\ data.topic = Str("") => title = "Infographic: "
              /\ data.summary.k = "absent" => lines = <<NoSummary>>
              /\ data.summary = Str(<<>>) => lines = << <<>> >>
              /\ (data.stats.k = "absent" \/ data.stats = List(<<>>)) => draws = <<>>
              /\ (data.fun_fact.k = "absent" \/ data.fun_fact = Str("")) => fact = "* "
              /\ data.stats.k = "list" =>
                    \A j \in 1..Min(3, Len(data.stats.v)) :
                       /\ data.stats.v[j].v.value \in {Absent, Str("")} =>
                             draws[3 * j - 1].text = ""
                       /\ data.stats.v[j].v.label \in {Absent, Str("")} =>
                             draws[3 * j].text = ""

\* the record with every field missing has been rendered and saved
C3_Witness ==
    /\ pc = "done"
    /\ data = [topic |-> Absent, summary |-> Absent, stats |-> Absent,
               fun_fact |-> Absent]
    /\ saved

\* the words of a text without its last word
Front(s) == SubSeq(s, 1, Len(s) - 1)

\* C4: a line is flushed when, and only when, the space-joined length of the
\* buffered words exceeds the threshold: the buffer never holds more than 80
\* characters between two passes, every line flushed inside the loop is longer
\* than 80 characters and was not before its last word was appended, and the
\* line flushed after the loop is the rest of the buffer, at most 80
\* characters long.
C4_FlushAtOverflow ==
    /\ pc = "wrap" => TextLen(Join(line)) <= 80
    /\ pc = "wrap" => \A j \in 1..Len(lines) :
          /\ TextLen(lines[j]) > 80
          /\ TextLen(Join(Front(Split(lines[j])))) <= 80
    /\ Wrapped =>
          /\ Len(lines) >= 1
          /\ lines[Len(lines)] = Join(line)
          /\ TextLen(lines[Len(lines)]) <= 80
          /\ \A j \in 1..(Len(lines) - 1) :
                /\ TextLen(lines[j]) > 80
                /\ TextLen(Join(Front(Split(lines[j])))) <= 80

\* a summary was broken inside the loop and its rest flushed as the last line
C4_Witness ==
    /\ pc = "done"
    /\ Len(lines) >= 2
    /\ Len(Split(lines[1])) >= 2
    /\ lines[Len(lines)] # <<>>

\* C5: the emitted lines, joined with line breaks, split into words and
\* wrapped again with the same threshold, give the same lines.
C5_RewrapIdempotent ==
    Wrapped => WrapFrom(Split(JoinWith(lines, NL)), <<>>, <<>>) = lines

\* a text that was wrapped into three lines
C5_Witness ==
    /\ pc = "done"
    /\ Len(lines) >= 3
    /\ lines[Len(lines)] # <<>>

RECURSIVE WordsOf(_)
WordsOf(ls) == IF ls = <<>> THEN <<>> ELSE Split(Head(ls)) \o WordsOf(Tail(ls))

\* C10: the words of the emitted lines, read in order, are the words of the
\* summary; every line but the last is non-empty; one line is emitted after
\* the loop, empty exactly when the summary has no words or its last word was
\* flushed inside the loop; and the "Did You Know?" heading lies half an inch
\* plus one leading (14pt) per emitted line below the first summary line.
C10_WrapKeepsWords ==
    /\ pc = "wrap" => ty = 0 - (48 * Inch) \div 10 - 140 * Len(lines)
    /\ Wrapped =>
          /\ data.summary.k = "str" => WordsOf(lines) = Split(data.summary.v)
          /\ Len(lines) >= 1
          /\ \A j \in 1..(Len(lines) - 1) : lines[j] # <<>>
          /\ lines[Len(lines)] = <<>> <=>
                (words = <<>> \/ Len(WordsOf(Front(lines))) = Len(words))
          /\ ty = 0 - (48 * Inch) \div 10 - 140 * Len(lines)
    /\ pc \in {"save", "done"} =>
          heading_y = 0 - (48 * Inch) \div 10 - 140 * Len(lines) - Inch \div 2

\* the last word of a summary was flushed inside the loop, so that the line
\* emitted after the loop is empty
C10_Witness ==
    /\ pc = "done"
    /\ Len(lines) >= 2
    /\ lines[Len(lines)] = <<>>
    /\ Len(words) >= 2

----------------------------------------------------------------------------
(* Properties of the generate request *)

\* the stripped text of the pipeline
Reply == Strip(upstream)

\* json.loads has been handed raw_json
Cleaned == pc = "parse" \/ calls.parse >= 1

\* the first position of t at or after j that holds a fence marker, or the
\* position after the end of t
NextFence(t, j) ==
    IF \E q \in j..Len(t) : t[q] = "F"
    THEN CHOOSE q \in j..Len(t) : t[q] = "F" /\ \A r \in j..(q - 1) : t[r] # "F"
    ELSE Len(t) + 1

\* t from position j up to the next fence marker
UpToFence(t, j) == SubSeq(t, j, NextFence(t, j) - 1)

\* the content between the first opening fence marker of t (``` or ```json)
\* and the next fence marker
FirstFenceContent(t) ==
    LET p == NextFence(t, 1)
    IN  IF p < Len(t) /\ t[p + 1] = "J"
        THEN UpToFence(t, p + 2)
        ELSE UpToFence(t, p + 1)

\* the number of fence markers in t
RECURSIVE FenceCount(_)
FenceCount(t) ==
    IF t = <<>> THEN 0
    ELSE (IF Head(t) = "F" THEN 1 ELSE 0) + FenceCount(Tail(t))

\* no two fence markers of t touch
FencesApart(t) == \A j \in 1..(Len(t) - 1) : ~(t[j] = "F" /\ t[j + 1] = "F")

\* C6 as stated: of a text with a fenced block, the content of the first
\* fence pair is parsed, whichever marker opens it; a text without a fence
\* marker is parsed as it is, stripped.
C6_FirstFencePair ==
    Cleaned =>
        /\ (FenceCount(Reply) >= 2 /\ FencesApart(Reply)) =>
              raw_json = FirstFenceContent(Reply)
        /\ FenceCount(Reply) = 0 => raw_json = Reply

\* the position of the first ```json marker of t
FirstJsonFence(t) ==
    CHOOSE q \in 1..(Len(t) - 1) :
        /\ t[q] = "F" /\ t[q + 1] = "J"
        /\ \A r \in 1..(q - 1) : ~(t[r] = "F" /\ t[r + 1] = "J")

\* C6, amended: when the stripped text holds a ```json marker, what is parsed
\* is the content from the first ```json marker up to the next fence marker
\* (or the end of the text), also when plain fences precede it; otherwise,
\* when it holds a fence marker, the content from the first marker up to the
\* next one (or the end); otherwise the stripped text itself.
C6_JsonFenceFirst ==
    Cleaned =>
        IF Contains(Reply, FenceJson)
        THEN raw_json = UpToFence(Reply, FirstJsonFence(Reply) + 2)
        ELSE IF FenceCount(Reply) >= 1
             THEN raw_json = UpToFence(Reply, NextFence(Reply, 1) + 1)
             ELSE raw_json = Reply

\* a closed plain fence pair precedes the ```json block that was parsed
C6_Witness ==
    /\ pc = "display"
    /\ FencesApart(Reply)
    /\ Contains(Reply, FenceJson)
    /\ FirstJsonFence(Reply) >= 3
    /\ FenceCount(SubSeq(Reply, 1, FirstJsonFence(Reply) - 1)) = 2
    /\ raw_json # FirstFenceContent(Reply)
    /\ raw_json = <<"O">>

\* the text is not JSON and holds no fence marker
Malformed(t) == FenceCount(t) = 0 /\ ~IsJson(t)

\* the number of events of a kind among es
RECURSIVE CountKind(_, _)
CountKind(es, kind) ==
    IF es = <<>> THEN 0
    ELSE (IF Head(es).kind = kind THEN 1 ELSE 0) + CountKind(Tail(es), kind)

RecordKinds == {"success", "markdown", "info", "metric", "download"}

\* C7: on a malformed reply (not JSON, no fence marker) nothing of the record
\* is ever displayed, the renderer is not called, no file is written and no
\* download is offered; when the request has ended after the pipeline
\* returned, exactly one error has been reported.
C7_MalformedReply ==
    Malformed(Reply) =>
        /\ \A j \in 1..Len(ui) :
              ui[j].kind \notin RecordKinds /\ ui[j].text # "fun_fact"
        /\ calls.render = 0
        /\ ~saved
        /\ calls.download = 0
        /\ CountKind(ui, "error") <= 1
        /\ (pc = "end" /\ calls.parse = 1) =>
              /\ CountKind(ui, "error") = 1
              /\ exc = "JSONDecodeError"

\* json.loads has rejected a reply of prose and the request has ended
C7_Witness ==
    /\ pc = "end"
    /\ calls.parse = 1
    /\ Malformed(Reply)
    /\ Reply # <<>>
    /\ Len(ui) = 2

\* C8: a generate request with an empty API key, or with a key and an empty
\* topic, never runs the pipeline, never writes GOOGLE_API_KEY to the
\* environment, never parses and never renders; it ends with the credential
\* error alone when the key is empty (also when the topic is empty too), and
\* with the topic warning alone otherwise.
C8_InputsChecked ==
    (api_key = "" \/ topic = "") =>
        /\ pc \in {"button", "end"}
        /\ calls = [crew |-> 0, parse |-> 0, render |-> 0, download |-> 0]
        /\ env_key = ""
        /\ ~saved
        /\ pc = "button" => ui = <<>>
        /\ (pc = "end" /\ api_key = "") =>
              ui = <<Event("error", "Please enter your API Key.")>>
        /\ (pc = "end" /\ api_key # "") =>
              ui = <<Event("warning", "Please enter a topic.")>>

\* a request with neither key nor topic has ended with one message
C8_Witness ==
    /\ pc = "end"
    /\ api_key = ""
    /\ topic = ""
    /\ Len(ui) = 1

\* the steps of one request ran at most once each, and each only after the
\* step before it succeeded
StepsInOrder ==
    /\ calls.crew <= 1 /\ calls.parse <= 1
    /\ calls.render <= 1 /\ calls.download <= 1
    /\ calls.parse <= calls.crew
    /\ calls.render <= calls.parse
    /\ calls.download <= calls.render
    /\ calls.render = 1 => parsed.k = "dict"
    /\ calls.download = 1 => (saved /\ result = "infographic.pdf")
    /\ CountKind(ui, "error") >= 1 => calls.download = 0

\* C9: within one request the pipeline, the parse, the renderer and the
\* download offer each happen at most once and in this order, the renderer
\* only after a successful parse and the download only after the renderer
\* returned its path; a request that reported an error offers no download;
\* and once a step has failed the only thing that follows is the report: no
\* step runs or runs again.
C9_OnceInOrder ==
    /\ []StepsInOrder
    /\ [][pc = "raised" => (pc' = "end" /\ calls' = calls /\ saved' = saved
                             /\ raw_json' = raw_json /\ parsed' = parsed)]_vars

\* a request has run every step once and offered the download
C9_Witness ==
    /\ pc = "end"
    /\ data = GoodRecord
    /\ calls = [crew |-> 1, parse |-> 1, render |-> 1, download |-> 1]
    /\ ui[Len(ui)].kind = "download"

============================================================================
